---------------------------- MODULE Spec2Model ----------------------------
(***************************************************************************)
(* State-machine model of redcap_rand.py: the stratified randomization     *)
(* run of main() and the functions it calls.                               *)
(*                                                                         *)
(* Text (labels, codes, REDCap choice specifications, raw report values)   *)
(* is modelled as a sequence of one-character strings, so that split(),    *)
(* strip() and int() are computed and not assumed.  Probabilities are      *)
(* kept in thousandths: round(a / b, 3) is the integer Round3(a, b).       *)
(***************************************************************************)
EXTENDS Integers, Sequences, FiniteSets, TLC

VARIABLES
    redcap_records,      \* what the REDCap report export returns (a list of records of raw text)
    full_codebook,       \* what the REDCap metadata export returns (a list of field descriptors)
    allocation_df,       \* the allocation table file: number of rows of each kind (AllRows)
    pc,                  \* position of main()
    exit_at,             \* where the process ended abnormally ("" while it has not)
    eligibility_report,  \* main's eligibility_report
    full_criteria,       \* main's full_criteria
    less_criteria,       \* main's less_criteria
    translation_dict,    \* main's translation_dict
    grouped_df,          \* main's grouped_df
    mapped_df,           \* main's mapped_df
    probability_dict,    \* main's probability_dict
    report_key,          \* randomization_step's loop index (1-based)
    pushed               \* the record list posted by push_to_redcap (<<>> while nothing was)

vars == <<redcap_records, full_codebook, allocation_df, pc, exit_at,
          eligibility_report, full_criteria, less_criteria, translation_dict,
          grouped_df, mapped_df, probability_dict, report_key, pushed>>

---------------------------------------------------------------------------
(* Configuration (config.py) and the field names of the modelled project.  *)

treatment_field == "treatment"
randomized_field == "rand_group"
id_field == "record_id"
sex_field == "sex"

\* The order in which a REDCap report lists the fields of a record.
report_fields == <<id_field, sex_field, randomized_field>>

---------------------------------------------------------------------------
(* Text helpers: str.split, str.strip, int().                              *)

RECURSIVE SplitFrom(_, _, _, _)
SplitFrom(s, d, i, cur) ==
    IF i > Len(s) THEN <<cur>>
    ELSE IF s[i] = d THEN <<cur>> \o SplitFrom(s, d, i + 1, <<>>)
    ELSE SplitFrom(s, d, i + 1, Append(cur, s[i]))

split(s, d) == SplitFrom(s, d, 1, <<>>)

RECURSIVE lstrip(_)
lstrip(s) == IF s # <<>> /\ Head(s) = " " THEN lstrip(Tail(s)) ELSE s

RECURSIVE rstrip(_)
rstrip(s) ==
    IF s # <<>> /\ s[Len(s)] = " " THEN rstrip(SubSeq(s, 1, Len(s) - 1)) ELSE s

strip(s) == rstrip(lstrip(s))

DigitValue ==
    "0" :> 0 @@ "1" :> 1 @@ "2" :> 2 @@ "3" :> 3 @@ "4" :> 4 @@
    "5" :> 5 @@ "6" :> 6 @@ "7" :> 7 @@ "8" :> 8 @@ "9" :> 9

IsDigits(s) == s # <<>> /\ \A i \in 1..Len(s) : s[i] \in DOMAIN DigitValue

RECURSIVE DigitsToNat(_)
DigitsToNat(s) ==
    IF s = <<>> THEN 0
    ELSE 10 * DigitsToNat(SubSeq(s, 1, Len(s) - 1)) + DigitValue[s[Len(s)]]

\* Whether int(s) returns (it raises ValueError otherwise).
IsIntText(s) ==
    LET t == strip(s)
    IN  IF t # <<>> /\ Head(t) \in {"-", "+"} THEN IsDigits(Tail(t)) ELSE IsDigits(t)

\* int(s), for a text on which it returns.
ToInt(s) ==
    LET t == strip(s)
    IN  IF Head(t) = "-" THEN 0 - DigitsToNat(Tail(t))
        ELSE IF Head(t) = "+" THEN DigitsToNat(Tail(t))
        ELSE DigitsToNat(t)

\* d[k] = v on a dictionary.
Put(d, k, v) == [x \in (DOMAIN d) \cup {k} |-> IF x = k THEN v ELSE d[x]]

EmptyDict == [x \in {} |-> <<>>]

---------------------------------------------------------------------------
(* convert_codebook                                                        *)

approved_field_types == {"dropdown", "radio", "checkbox"}

YesNoChoices == <<"1", ",", " ", "Y", "e", "s", " ", "|", " ", "0", ",", " ", "N", "o">>
TrueFalseChoices ==
    <<"1", ",", " ", "T", "r", "u", "e", " ", "|", " ", "0", ",", " ", "F", "a", "l", "s", "e">>

\* The choices text a descriptor is converted from (lines 73-76 overwrite it
\* for the two synthesized types).
EffectiveChoices(obj) ==
    IF obj.field_type = "yesno" THEN YesNoChoices
    ELSE IF obj.field_type = "truefalse" THEN TrueFalseChoices
    ELSE obj.select_choices_or_calculations

\* Whether the descriptor gets past the field-type test (it is skipped otherwise).
FieldTypeValidated(obj) ==
    obj.field_type \in {"yesno", "truefalse"} \cup approved_field_types

\* The test of line 83.
IsConverted(obj, criteria) ==
    /\ EffectiveChoices(obj) # <<>>
    /\ \/ \E i \in 1..Len(criteria) : criteria[i] = obj.field_name
       \/ obj.field_name = treatment_field

\* kv_list[1] raises IndexError when the pair holds no comma.
PairRaises(pair) == Len(split(pair, ",")) < 2

\* The for loop of lines 87-89 over pipe_split[i..], on temp_dict.
RECURSIVE ConvertPairs(_, _, _)
ConvertPairs(pipe_split, i, temp_dict) ==
    IF i > Len(pipe_split) THEN temp_dict
    ELSE LET kv_list == split(pipe_split[i], ",")
         IN  ConvertPairs(pipe_split, i + 1,
                          Put(temp_dict, strip(kv_list[2]), strip(kv_list[1])))

\* The body of the try of lines 84-92: the dictionary of one field.
ConvertChoices(choices) == ConvertPairs(split(choices, "|"), 1, EmptyDict)

ChoicesRaise(choices) ==
    LET pipe_split == split(choices, "|")
    IN  \E i \in 1..Len(pipe_split) : PairRaises(pipe_split[i])

\* The loop of line 68 over full_codebook[i..], on codebook.  The result is
\* [exit |-> TRUE] when sys.exit(1) is reached, and the codebook otherwise.
RECURSIVE ConvertFrom(_, _, _, _)
ConvertFrom(codebook_in, criteria, i, codebook) ==
    IF i > Len(codebook_in) THEN [exit |-> FALSE, codebook |-> codebook]
    ELSE LET obj == codebook_in[i]
         IN  IF ~FieldTypeValidated(obj) \/ ~IsConverted(obj, criteria)
             THEN ConvertFrom(codebook_in, criteria, i + 1, codebook)
             ELSE IF ChoicesRaise(EffectiveChoices(obj))
             THEN [exit |-> TRUE, codebook |-> codebook]
             ELSE ConvertFrom(codebook_in, criteria, i + 1,
                              Put(codebook, obj.field_name,
                                  ConvertChoices(EffectiveChoices(obj))))

\* convert_codebook with the sys.exit(1) of line 97 left out: the failure is
\* printed and the codebook built so far is returned.
convert_codebook_no_exit(codebook_in, criteria) ==
    [exit |-> FALSE, codebook |-> ConvertFrom(codebook_in, criteria, 1, EmptyDict).codebook]

convert_codebook(codebook_in, criteria) ==
    ConvertFrom(codebook_in, criteria, 1, EmptyDict)

---------------------------------------------------------------------------
(* The allocation table.  A table is read as a bag of rows: how many rows  *)
(* of each kind the file holds.  AllRows lists the kinds in the order in   *)
(* which groupby() sorts them (columns sex, rand_group, treatment).        *)

allocation_columns == <<sex_field, randomized_field, treatment_field>>

SexLabels == << <<>>, <<"F">>, <<"M">> >>
RandColumnValues == << <<>> >>
TreatmentLabels == << <<"A">>, <<"B">> >>

NumRowKinds == Len(SexLabels) * Len(RandColumnValues) * Len(TreatmentLabels)

AllRows ==
    [k \in 1..NumRowKinds |->
        LET t == (k - 1) % Len(TreatmentLabels)
            r == ((k - 1) \div Len(TreatmentLabels)) % Len(RandColumnValues)
            s == (k - 1) \div (Len(TreatmentLabels) * Len(RandColumnValues))
        IN  [sex |-> SexLabels[s + 1],
             rand_group |-> RandColumnValues[r + 1],
             treatment |-> TreatmentLabels[t + 1]]]

\* allocation_df.groupby(all columns, as_index=False, dropna=False).size(),
\* after the missing cells were replaced by '' (lines 243-244): one row per
\* kind of row present, in sorted order, with its number of rows.
RECURSIVE GroupFrom(_, _)
GroupFrom(df, k) ==
    IF k > Len(df) THEN <<>>
    ELSE IF df[k] = 0 THEN GroupFrom(df, k + 1)
    ELSE <<[sex |-> AllRows[k].sex,
            rand_group |-> AllRows[k].rand_group,
            treatment |-> AllRows[k].treatment,
            size |-> df[k]]>> \o GroupFrom(df, k + 1)

group_rows(df) == GroupFrom(df, 1)

\* list.remove(x): the list without the first x (ValueError when x is absent).
RECURSIVE ListRemove(_, _)
ListRemove(list, x) ==
    IF list = <<>> THEN <<>>
    ELSE IF Head(list) = x THEN Tail(list)
    ELSE <<Head(list)>> \o ListRemove(Tail(list), x)

InList(list, x) == \E i \in 1..Len(list) : list[i] = x

SetOf(list) == {list[i] : i \in 1..Len(list)}

\* list(record.keys()), in the order of the report's fields.
RECURSIVE KeysFrom(_, _)
KeysFrom(record, i) ==
    IF i > Len(report_fields) THEN <<>>
    ELSE IF report_fields[i] \in DOMAIN record
    THEN <<report_fields[i]>> \o KeysFrom(record, i + 1)
    ELSE KeysFrom(record, i + 1)

keys(record) == KeysFrom(record, 1)

\* sorted(full_criteria) == sorted(allocation_df.columns.drop(treatment_field)),
\* for lists without repeated names.
CriteriaMatch(criteria, columns) ==
    /\ Len(criteria) = Len(ListRemove(columns, treatment_field))
    /\ SetOf(criteria) = SetOf(ListRemove(columns, treatment_field))

---------------------------------------------------------------------------
(* calculate_probabilities                                                 *)

\* tuple(row[col] for col in criteria)
KeyOf(row, criteria) == [i \in 1..Len(criteria) |-> row[criteria[i]]]

\* round(a / b, 3), in thousandths (ties go to the even thousandth).
Round3(a, b) ==
    LET q == (1000 * a) \div b
        r == (1000 * a) % b
    IN  IF 2 * r < b THEN q
        ELSE IF 2 * r > b THEN q + 1
        ELSE IF q % 2 = 0 THEN q ELSE q + 1

RECURSIVE SumSizes(_, _, _, _)
SumSizes(df, criteria, key, i) ==
    IF i > Len(df) THEN 0
    ELSE (IF KeyOf(df[i], criteria) = key THEN df[i].size ELSE 0)
         + SumSizes(df, criteria, key, i + 1)

\* freq_df (line 127): one row per combination of criteria in grouped_df,
\* with the sum of the sizes.  grouped_df is sorted with the criteria first,
\* so the combinations come in the order in which they first appear.
RECURSIVE FreqFrom(_, _, _, _)
FreqFrom(df, criteria, i, seen) ==
    IF i > Len(df) THEN <<>>
    ELSE LET key == KeyOf(df[i], criteria)
         IN  IF key \in seen THEN FreqFrom(df, criteria, i + 1, seen)
             ELSE <<[key |-> key, size |-> SumSizes(df, criteria, key, 1)]>>
                  \o FreqFrom(df, criteria, i + 1, seen \cup {key})

freq_rows(df, criteria) == FreqFrom(df, criteria, 1, {})

\* The inner loop (lines 129-135) for one row of freq_df.
RECURSIVE MatchFrom(_, _, _, _)
MatchFrom(row, df, criteria, j) ==
    IF j > Len(df) THEN <<>>
    ELSE IF row.key = KeyOf(df[j], criteria)
    THEN <<[sex |-> df[j].sex,
            rand_group |-> df[j].treatment,
            treatment |-> df[j].treatment,
            size |-> df[j].size,
            probability |-> Round3(df[j].size, row.size)]>>
         \o MatchFrom(row, df, criteria, j + 1)
    ELSE MatchFrom(row, df, criteria, j + 1)

\* The outer loop (line 128), and line 145 applied to every row.
RECURSIVE ProbFrom(_, _, _, _)
ProbFrom(freq, df, criteria, i) ==
    IF i > Len(freq) THEN <<>>
    ELSE MatchFrom(freq[i], df, criteria, 1) \o ProbFrom(freq, df, criteria, i + 1)

calculate_probabilities(df, criteria) ==
    ProbFrom(freq_rows(df, criteria), df, criteria, 1)

---------------------------------------------------------------------------
(* convert_to_values, and the integer coercion of line 266                 *)

\* translation_dict[column].get(x, None), the None then replaced by ''.
LabelToCode(dict, x) == IF x \in DOMAIN dict THEN dict[x] ELSE <<>>

\* convert_to_values on one row: every column of criteria is rewritten.
ConvertRow(row, criteria, dict) ==
    [col \in DOMAIN row |->
        IF InList(criteria, col) THEN LabelToCode(dict[col], row[col]) ELSE row[col]]

\* translation_dict[column_name] raises KeyError for a column without mapping.
ConvertRaises(criteria, dict) ==
    \E i \in 1..Len(criteria) : criteria[i] \notin DOMAIN dict

convert_to_values(criteria, df, dict) ==
    [i \in 1..Len(df) |-> ConvertRow(df[i], criteria, dict)]

\* The coercion with fillna(0) for fillna(-1).
CoerceCellZero(v) == IF v = <<>> THEN 0 ELSE ToInt(v)

\* .replace(['', inf, -inf], nan).fillna(-1).astype(int) on one cell.
CoerceCell(v) == IF v = <<>> THEN -1 ELSE ToInt(v)

\* astype(int) raises ValueError on a text that is no integer.
CoerceRaises(df, criteria) ==
    \E i \in 1..Len(df) : \E j \in 1..Len(criteria) :
        LET v == df[i][criteria[j]] IN v # <<>> /\ ~IsIntText(v)

CoerceRows(df, criteria) ==
    [i \in 1..Len(df) |->
        [col \in DOMAIN df[i] |->
            IF InList(criteria, col) THEN CoerceCell(df[i][col]) ELSE df[i][col]]]

\* Line 269 on one record: int(value) if value != '' else -1, for every key.
ReportRecordRaises(record) ==
    \E key \in DOMAIN record : record[key] # <<>> /\ ~IsIntText(record[key])

ConvertRecord(record) ==
    [key \in DOMAIN record |-> IF record[key] # <<>> THEN ToInt(record[key]) ELSE -1]

---------------------------------------------------------------------------
(* create_probability_dict                                                 *)

\* probability_dict.get(key, {})
DictGet(dict, key) == IF key \in DOMAIN dict THEN dict[key] ELSE EmptyDict

\* The loop of lines 176-182 over mapped_df[i..], on dict.
RECURSIVE FoldRows(_, _, _, _)
FoldRows(df, criteria, i, dict) ==
    IF i > Len(df) THEN dict
    ELSE LET key == KeyOf(df[i], criteria)
             value_dict == Put(DictGet(dict, key), df[i][randomized_field],
                               df[i].probability)
         IN  FoldRows(df, criteria, i + 1, Put(dict, key, value_dict))

create_probability_dict(df, criteria) == FoldRows(df, criteria, 1, EmptyDict)

---------------------------------------------------------------------------
(* randomization_step                                                      *)

\* The test of line 190.
HasAllKeys(record, criteria) ==
    \A i \in 1..Len(criteria) : criteria[i] \in DOMAIN record

\* The values random.choices(keys, weights=values, k=1)[0] can return: a key
\* is returned only over a non-empty interval of the cumulative weights.
Choices(multilevel_value) ==
    {t \in DOMAIN multilevel_value : multilevel_value[t] > 0}

\* Line 195 writing the choice into every record of the list.
AssignChoiceEvery(report, k, random_choice) ==
    [i \in 1..Len(report) |-> Put(report[i], randomized_field, random_choice)]

\* Line 195.
AssignChoice(report, k, random_choice) ==
    [report EXCEPT ![k] = Put(report[k], randomized_field, random_choice)]

\* Lines 278-281 on one record; the value handed to json.dumps is written
\* <<>> for None (null) and <<n>> for the integer n.
NullSentinel(record) ==
    [key \in DOMAIN record |-> IF record[key] = -1 THEN <<>> ELSE <<record[key]>>]

---------------------------------------------------------------------------
(* Inputs: what the three sources can hold, within the bounds.             *)

MaxRows == 3        \* rows of the allocation table
NumSubjects == 2    \* records of the REDCap report
MaxPairs == 2       \* choices of a field, in SpecCodebook

\* The bags of at most k rows over the first n kinds of row.
RECURSIVE Bags(_, _)
Bags(n, k) ==
    IF n = 0 THEN {<<>>}
    ELSE UNION {{Append(b, c) : b \in Bags(n - 1, k - c)} : c \in 0..k}

Tables == Bags(NumRowKinds, MaxRows)

\* The text of a record identifier.
IdText(i) == <<CHOOSE d \in DOMAIN DigitValue : DigitValue[d] = i>>

\* What a subject's record holds besides its identifier: a valid code, an
\* empty criterion, no criterion field at all, an assignment already present,
\* a code no table row may carry.
SubjectKinds ==
    { [sex |-> <<"1">>, rand_group |-> <<>>],
      [sex |-> <<>>, rand_group |-> <<>>],
      [rand_group |-> <<>>],
      [sex |-> <<"1">>, rand_group |-> <<"2">>],
      [sex |-> <<"2">>, rand_group |-> <<>>] }

Reports ==
    UNION {{[i \in 1..n |-> Put(kinds[i], id_field, IdText(i))] :
                kinds \in [1..n -> SubjectKinds]} : n \in 0..NumSubjects}

\* 'code, label' and 'a | b' of a REDCap choices text.
Choice(code, label) == code \o <<",", " ">> \o label
Pipe(a, b) == a \o <<" ", "|", " ">> \o b

Field(name, type, choices) ==
    [field_name |-> name, field_type |-> type, select_choices_or_calculations |-> choices]

IdDescriptor == Field(id_field, "text", <<>>)
ArmChoices == Pipe(Choice(<<"1">>, <<"A">>), Choice(<<"2">>, <<"B">>))
ArmDescriptors ==
    <<Field(randomized_field, "radio", ArmChoices), Field(treatment_field, "dropdown", ArmChoices)>>

\* The data dictionaries of the model: a complete one; one whose code -1 is a
\* valid code; one that lacks labels of the table; one with a pair without
\* comma; one whose criterion has an unsupported type; one with a code that
\* is no integer; one with a malformed treatment field; a yes/no criterion.
Codebooks ==
    { <<IdDescriptor,
        Field(sex_field, "radio", Pipe(Choice(<<"1">>, <<"F">>), Choice(<<"2">>, <<"M">>)))>>
        \o ArmDescriptors,
      <<IdDescriptor,
        Field(sex_field, "radio", Pipe(Choice(<<"1">>, <<"F">>), Choice(<<"-", "1">>, <<"M">>)))>>
        \o ArmDescriptors,
      <<IdDescriptor,
        Field(sex_field, "dropdown", Choice(<<"1">>, <<"F">>)),
        Field(randomized_field, "radio", Choice(<<"1">>, <<"A">>)),
        Field(treatment_field, "radio", Choice(<<"1">>, <<"A">>))>>,
      <<IdDescriptor,
        Field(sex_field, "radio", Pipe(Choice(<<"1">>, <<"F">>), <<"M">>))>>
        \o ArmDescriptors,
      <<IdDescriptor,
        Field(sex_field, "text", <<>>)>>
        \o ArmDescriptors,
      <<IdDescriptor,
        Field(sex_field, "checkbox", Pipe(Choice(<<"x">>, <<"F">>), Choice(<<"2">>, <<"M">>)))>>
        \o ArmDescriptors,
      <<IdDescriptor,
        Field(sex_field, "radio", Pipe(Choice(<<"1">>, <<"F">>), Choice(<<"2">>, <<"M">>))),
        Field(randomized_field, "radio", ArmChoices),
        Field(treatment_field, "dropdown", <<"1", " ", "A">>)>>,
      <<IdDescriptor,
        Field(sex_field, "yesno", <<>>)>>
        \o ArmDescriptors }

---------------------------------------------------------------------------
(* main                                                                    *)

Init ==
    /\ redcap_records = <<>>
    /\ full_codebook = <<>>
    /\ allocation_df = <<>>
    /\ pc = "pull_report"
    /\ exit_at = ""
    /\ eligibility_report = <<>>
    /\ full_criteria = <<>>
    /\ less_criteria = <<>>
    /\ translation_dict = EmptyDict
    /\ grouped_df = <<>>
    /\ mapped_df = <<>>
    /\ probability_dict = EmptyDict
    /\ report_key = 0
    /\ pushed = <<>>

\* sys.exit(1), or an exception nothing catches.
Exit(where) == pc' = "exit" /\ exit_at' = where

\* Line 228: pull_redcap_report returns the records of the report; it exits
\* when the answer is not 200 or holds no record.
PullReport ==
    /\ pc = "pull_report"
    /\ \/ \E records \in Reports :
            /\ redcap_records' = records
            /\ IF Len(records) = 0
               THEN Exit("pull_redcap_report") /\ UNCHANGED eligibility_report
               ELSE /\ eligibility_report' = records
                    /\ pc' = "codebook"
                    /\ UNCHANGED exit_at
       \/ Exit("pull_redcap_report") /\ UNCHANGED <<redcap_records, eligibility_report>>
    /\ UNCHANGED <<full_codebook, allocation_df, full_criteria,
                   less_criteria, translation_dict, grouped_df, mapped_df,
                   probability_dict, report_key, pushed>>

\* Lines 229-239: pull_redcap_codebook returns one of the data dictionaries
\* of metadata, or exits when the request raises; full_criteria; convert_codebook.
PullCodebookFrom(metadata) ==
    /\ pc = "codebook"
    /\ \/ \E original_codebook \in metadata :
            LET criteria == Tail(keys(eligibility_report[1]))
                result == convert_codebook(original_codebook, criteria)
            IN  /\ full_codebook' = original_codebook
                /\ full_criteria' = criteria
                /\ IF result.exit
                   THEN Exit("convert_codebook") /\ UNCHANGED translation_dict
                   ELSE /\ translation_dict' = result.codebook
                        /\ pc' = "allocation_table"
                        /\ UNCHANGED exit_at
       \/ /\ Exit("pull_redcap_codebook")
          /\ UNCHANGED <<full_codebook, full_criteria, translation_dict>>
    /\ UNCHANGED <<redcap_records, allocation_df, eligibility_report,
                   less_criteria, grouped_df, mapped_df, probability_dict,
                   report_key, pushed>>

PullCodebook == PullCodebookFrom(Codebooks)

\* Lines 242-250: pull_allocation_table reads the file, or exits when it
\* cannot; grouped_df; less_criteria (list.remove raises ValueError when the
\* report has no randomized field).
AllocationTable ==
    /\ pc = "allocation_table"
    /\ \/ /\ \E temp_df \in Tables :
                /\ allocation_df' = temp_df
                /\ grouped_df' = group_rows(temp_df)
          /\ IF InList(full_criteria, randomized_field)
             THEN /\ less_criteria' = ListRemove(full_criteria, randomized_field)
                  /\ pc' = "check_criteria"
                  /\ UNCHANGED exit_at
             ELSE Exit("less_criteria") /\ UNCHANGED less_criteria
       \/ /\ Exit("pull_allocation_table")
          /\ UNCHANGED <<allocation_df, grouped_df, less_criteria>>
    /\ UNCHANGED <<redcap_records, full_codebook, eligibility_report,
                   full_criteria, translation_dict, mapped_df, probability_dict,
                   report_key, pushed>>

\* Lines 252-259: the criteria of the report against the columns of the table.
CheckCriteria ==
    /\ pc = "check_criteria"
    /\ IF CriteriaMatch(full_criteria, allocation_columns)
       THEN pc' = "calculate_probabilities" /\ UNCHANGED exit_at
       ELSE Exit("check_criteria")
    /\ UNCHANGED <<redcap_records, full_codebook, allocation_df, eligibility_report,
                   full_criteria, less_criteria, translation_dict, grouped_df,
                   mapped_df, probability_dict, report_key, pushed>>

\* Line 262: calculate_probabilities (line 145 raises KeyError on an empty table).
CalculateProbabilities ==
    /\ pc = "calculate_probabilities"
    /\ IF grouped_df = <<>>
       THEN Exit("calculate_probabilities") /\ UNCHANGED mapped_df
       ELSE /\ mapped_df' = calculate_probabilities(grouped_df, less_criteria)
            /\ pc' = "convert_to_values"
            /\ UNCHANGED exit_at
    /\ UNCHANGED <<redcap_records, full_codebook, allocation_df, eligibility_report,
                   full_criteria, less_criteria, translation_dict, grouped_df,
                   probability_dict, report_key, pushed>>

\* Lines 265-266: convert_to_values, then the coercion to integers.
ConvertToValues ==
    /\ pc = "convert_to_values"
    /\ IF ConvertRaises(full_criteria, translation_dict)
       THEN Exit("convert_to_values") /\ UNCHANGED mapped_df
       ELSE LET df == convert_to_values(full_criteria, mapped_df, translation_dict)
            IN  IF CoerceRaises(df, full_criteria)
                THEN Exit("astype") /\ mapped_df' = df
                ELSE /\ mapped_df' = CoerceRows(df, full_criteria)
                     /\ pc' = "convert_report"
                     /\ UNCHANGED exit_at
    /\ UNCHANGED <<redcap_records, full_codebook, allocation_df, eligibility_report,
                   full_criteria, less_criteria, translation_dict, grouped_df,
                   probability_dict, report_key, pushed>>

\* Line 269: the values of the report as integers, -1 for ''.
ConvertReport ==
    /\ pc = "convert_report"
    /\ IF \E i \in 1..Len(eligibility_report) : ReportRecordRaises(eligibility_report[i])
       THEN Exit("convert_report") /\ UNCHANGED eligibility_report
       ELSE /\ eligibility_report' =
                   [i \in 1..Len(eligibility_report) |-> ConvertRecord(eligibility_report[i])]
            /\ pc' = "create_probability_dict"
            /\ UNCHANGED exit_at
    /\ UNCHANGED <<redcap_records, full_codebook, allocation_df, full_criteria,
                   less_criteria, translation_dict, grouped_df, mapped_df,
                   probability_dict, report_key, pushed>>

\* Line 272: create_probability_dict; line 275 enters randomization_step.
CreateProbabilityDict ==
    /\ pc = "create_probability_dict"
    /\ probability_dict' = create_probability_dict(mapped_df, less_criteria)
    /\ report_key' = 1
    /\ pc' = "randomization_step"
    /\ UNCHANGED <<redcap_records, full_codebook, allocation_df, exit_at,
                   eligibility_report, full_criteria, less_criteria,
                   translation_dict, grouped_df, mapped_df, pushed>>

\* One iteration of the loop of lines 189-195 (random.choices raises
\* ValueError when no weight is positive); the function returns after the
\* last record.
RandomizationStep ==
    /\ pc = "randomization_step"
    /\ LET report_value == eligibility_report[report_key]
           tuple_key == KeyOf(report_value, less_criteria)
           last == report_key = Len(eligibility_report)
       IN  IF HasAllKeys(report_value, less_criteria) /\ tuple_key \in DOMAIN probability_dict
           THEN IF Choices(probability_dict[tuple_key]) = {}
                THEN Exit("random_choices") /\ UNCHANGED <<eligibility_report, report_key>>
                ELSE /\ \E random_choice \in Choices(probability_dict[tuple_key]) :
                            eligibility_report' =
                                AssignChoice(eligibility_report, report_key, random_choice)
                     /\ report_key' = report_key + 1
                     /\ pc' = IF last THEN "log_records" ELSE pc
                     /\ UNCHANGED exit_at
           ELSE /\ report_key' = report_key + 1
                /\ pc' = IF last THEN "log_records" ELSE pc
                /\ UNCHANGED <<eligibility_report, exit_at>>
    /\ UNCHANGED <<redcap_records, full_codebook, allocation_df, full_criteria,
                   less_criteria, translation_dict, grouped_df, mapped_df,
                   probability_dict, pushed>>

\* Lines 277-282: every value -1 of every record becomes None.
LogRecords ==
    /\ pc = "log_records"
    /\ eligibility_report' =
           [i \in 1..Len(eligibility_report) |-> NullSentinel(eligibility_report[i])]
    /\ pc' = "push_to_redcap"
    /\ UNCHANGED <<redcap_records, full_codebook, allocation_df, exit_at, full_criteria,
                   less_criteria, translation_dict, grouped_df, mapped_df,
                   probability_dict, report_key, pushed>>

\* Line 285: push_to_redcap posts the list; REDCap answers 200 or not.
PushToRedcap ==
    /\ pc = "push_to_redcap"
    /\ pushed' = eligibility_report
    /\ \/ pc' = "done" /\ UNCHANGED exit_at
       \/ Exit("push_to_redcap")
    /\ UNCHANGED <<redcap_records, full_codebook, allocation_df, eligibility_report,
                   full_criteria, less_criteria, translation_dict, grouped_df,
                   mapped_df, probability_dict, report_key>>

Next ==
    \/ PullReport
    \/ PullCodebook
    \/ AllocationTable
    \/ CheckCriteria
    \/ CalculateProbabilities
    \/ ConvertToValues
    \/ ConvertReport
    \/ CreateProbabilityDict
    \/ RandomizationStep
    \/ LogRecords
    \/ PushToRedcap

Spec == Init /\ [][Next]_vars

---------------------------------------------------------------------------
(* Vocabulary of the properties                                            *)

\* The identifiers the run reports as left unassigned.  main builds no such
\* list: besides the posted list it only logs every record alike.
unassigned_report == {}

\* The Probability Index exists (create_probability_dict has returned).
IndexBuilt ==
    \/ pc \in {"randomization_step", "log_records", "push_to_redcap", "done"}
    \/ pc = "exit" /\ exit_at \in {"random_choices", "push_to_redcap"}

\* mapped_df holds integer codes (line 266 has run).
ValuesCoerced ==
    \/ IndexBuilt
    \/ pc \in {"convert_report", "create_probability_dict"}
    \/ pc = "exit" /\ exit_at = "convert_report"

\* The allocation table has been read.
TableRead ==
    /\ pc \notin {"pull_report", "codebook", "allocation_table"}
    /\ exit_at \notin {"pull_redcap_report", "pull_redcap_codebook", "convert_codebook",
                       "pull_allocation_table"}

RECURSIVE SumOver(_, _)
SumOver(f, S) ==
    IF S = {} THEN 0
    ELSE LET x == CHOOSE y \in S : TRUE IN f[x] + SumOver(f, S \ {x})

\* Rows of the table file whose stratification labels are stratum, and those
\* among them with the given treatment label.
RowsOfStratum(stratum) ==
    SumOver(allocation_df,
            {k \in 1..Len(allocation_df) : KeyOf(AllRows[k], less_criteria) = stratum})

RowsOfTreatment(stratum, treatment) ==
    SumOver(allocation_df,
            {k \in 1..Len(allocation_df) :
                /\ KeyOf(AllRows[k], less_criteria) = stratum
                /\ AllRows[k].treatment = treatment})

ObservedStrata == {KeyOf(grouped_df[i], less_criteria) : i \in 1..Len(grouped_df)}

\* The rows of grouped_df (and of mapped_df, which keeps their order) of a stratum.
RowsIn(stratum) ==
    {i \in 1..Len(grouped_df) : KeyOf(grouped_df[i], less_criteria) = stratum}

\* Subject i of the report has a stratum key, and the key as integers.
SubjectHasKey(i) == HasAllKeys(redcap_records[i], less_criteria)
SubjectKey(i) == KeyOf(ConvertRecord(redcap_records[i]), less_criteria)

---------------------------------------------------------------------------
(* C1: the Probability Index has exactly one key per stratum observed in   *)
(* the table, and the distribution of a stratum holds exactly its observed *)
(* treatments, each with probability rows(stratum, treatment) /            *)
(* rows(stratum) rounded to 3 decimals.                                    *)
C1_IndexIsConditionalFrequency ==
    IndexBuilt =>
        /\ Cardinality(DOMAIN probability_dict) = Cardinality(ObservedStrata)
        /\ \A stratum \in ObservedStrata :
            \E key \in DOMAIN probability_dict :
                /\ \A i \in RowsIn(stratum) : KeyOf(mapped_df[i], less_criteria) = key
                /\ Cardinality(DOMAIN probability_dict[key])
                       = Cardinality({grouped_df[i].treatment : i \in RowsIn(stratum)})
                /\ \A i \in RowsIn(stratum) :
                    /\ mapped_df[i][randomized_field] \in DOMAIN probability_dict[key]
                    /\ probability_dict[key][mapped_df[i][randomized_field]]
                           = Round3(RowsOfTreatment(stratum, grouped_df[i].treatment),
                                    RowsOfStratum(stratum))

---------------------------------------------------------------------------
(* C2: the probabilities of every stratum key of the Probability Index     *)
(* that randomization_step reads sum to 1.0 within 0.001.                  *)
C2_DistributionsSumToOne ==
    IndexBuilt =>
        \A key \in DOMAIN probability_dict :
            LET total == SumOver(probability_dict[key], DOMAIN probability_dict[key])
            IN  total >= 999 /\ total <= 1001

---------------------------------------------------------------------------
(* C3: a pending subject whose stratum key is no key of the Probability    *)
(* Index has a null treatment field in the list handed to push_to_redcap,  *)
(* and its identifier is in the unassigned report.                         *)
C3_UnmatchedIsNullAndReported ==
    pushed # <<>> =>
        \A i \in 1..Len(pushed) :
            (SubjectHasKey(i) /\ SubjectKey(i) \notin DOMAIN probability_dict) =>
                /\ pushed[i][randomized_field] = <<>>
                /\ pushed[i][id_field] \in unassigned_report

---------------------------------------------------------------------------
(* C4: a pending subject whose stratum key is in the Probability Index has *)
(* its treatment field, in the list handed to push_to_redcap, set to one   *)
(* key of its stratum's distribution whose probability is not 0.           *)
C4_MatchedIsAssignedFromDistribution ==
    pushed # <<>> =>
        \A i \in 1..Len(pushed) :
            (SubjectHasKey(i) /\ SubjectKey(i) \in DOMAIN probability_dict) =>
                \E t \in DOMAIN probability_dict[SubjectKey(i)] :
                    /\ probability_dict[SubjectKey(i)][t] > 0
                    /\ pushed[i][randomized_field] = <<t>>

---------------------------------------------------------------------------
(* C5: historical rows with an empty criterion are a category of their     *)
(* own: in the grouped counts and in the Probability Index they never      *)
(* share a stratum with rows that carry a value for that criterion.        *)
C5_MissingIsItsOwnCategory ==
    /\ TableRead =>
        \A i \in 1..Len(grouped_df) :
            grouped_df[i].size =
                SumOver(allocation_df,
                        {k \in 1..Len(allocation_df) :
                            \A col \in SetOf(allocation_columns) :
                                AllRows[k][col] = grouped_df[i][col]})
    /\ IndexBuilt =>
        \A i, j \in 1..Len(grouped_df) : \A c \in SetOf(less_criteria) :
            (grouped_df[i][c] = <<>> /\ grouped_df[j][c] # <<>>) =>
                KeyOf(mapped_df[i], less_criteria) # KeyOf(mapped_df[j], less_criteria)

---------------------------------------------------------------------------
(* C6: the code a pending subject gets for an empty criterion differs from *)
(* every valid code of that criterion, and its stratum key is the key of   *)
(* no historical row that carries a value for that criterion.              *)
C6_MissingCriterionMatchesOnlyMissing ==
    pc = "randomization_step" =>
        \A i \in 1..Len(eligibility_report) : \A c \in SetOf(less_criteria) :
            (c \in DOMAIN redcap_records[i] /\ redcap_records[i][c] = <<>>) =>
                /\ \A label \in DOMAIN translation_dict[c] :
                       IsIntText(translation_dict[c][label]) =>
                           ToInt(translation_dict[c][label]) # eligibility_report[i][c]
                /\ \A j \in 1..Len(mapped_df) :
                       (SubjectHasKey(i)
                          /\ KeyOf(mapped_df[j], less_criteria)
                                 = KeyOf(eligibility_report[i], less_criteria)) =>
                           grouped_df[j][c] = <<>>

---------------------------------------------------------------------------

\* A choices text with a pair that holds no comma (an empty pair included).
Malformed(choices) ==
    LET pairs == split(choices, "|")
    IN  \E i \in 1..Len(pairs) : \A j \in 1..Len(pairs[i]) : pairs[i][j] # ","

MalformedFieldOfInterest ==
    \E i \in 1..Len(full_codebook) :
        /\ full_codebook[i].field_type \in approved_field_types
        /\ full_codebook[i].field_name \in SetOf(full_criteria) \cup {treatment_field}
        /\ full_codebook[i].select_choices_or_calculations # <<>>
        /\ Malformed(full_codebook[i].select_choices_or_calculations)

CriteriaDiffer ==
    /\ TableRead
    /\ SetOf(Tail(keys(redcap_records[1]))) \ {randomized_field}
           # SetOf(allocation_columns) \ {randomized_field, treatment_field}

(* C7: a fatal configuration error (a malformed choices text of a field of *)
(* interest, or criteria of the report that differ from those of the       *)
(* table) stops the run before randomization_step runs for any subject and *)
(* before push_to_redcap is called.                                        *)
C7_FatalErrorStopsBeforeRandomization ==
    (MalformedFieldOfInterest \/ CriteriaDiffer) =>
        /\ pc \notin {"calculate_probabilities", "convert_to_values", "convert_report",
                      "create_probability_dict", "randomization_step", "log_records",
                      "push_to_redcap", "done"}
        /\ (pc = "exit" => exit_at \in {"convert_codebook", "check_criteria"})
        /\ report_key = 0
        /\ pushed = <<>>

C7_Witness ==
    /\ pc = "exit"
    /\ MalformedFieldOfInterest
    /\ Len(redcap_records) = NumSubjects

---------------------------------------------------------------------------

\* The label row i of the table carried in column col before the rewriting
\* (the randomized column was overwritten by the treatment, line 145).
LabelBefore(i, col) ==
    IF col = randomized_field THEN grouped_df[i].treatment ELSE grouped_df[i][col]

(* C9: a criterion or treatment label of the table without entry in the    *)
(* mapping of its field becomes -1 and does not stop the run; after the    *)
(* reconciliation every criteria value of the table is an integer.         *)
C9_UnmappedLabelBecomesSentinel ==
    /\ ValuesCoerced =>
        /\ Len(mapped_df) = Len(grouped_df)
        /\ \A i \in 1..Len(mapped_df) : \A col \in SetOf(full_criteria) :
            /\ mapped_df[i][col] \in Int
            /\ LabelBefore(i, col) \notin DOMAIN translation_dict[col] =>
                   mapped_df[i][col] = -1
    /\ exit_at = "convert_to_values" =>
           \E col \in SetOf(full_criteria) : col \notin DOMAIN translation_dict
    /\ exit_at = "astype" =>
           \E i \in 1..Len(grouped_df) : \E col \in SetOf(full_criteria) :
               /\ LabelBefore(i, col) \in DOMAIN translation_dict[col]
               /\ ~IsIntText(translation_dict[col][LabelBefore(i, col)])

C9_Witness ==
    /\ pc = "convert_report"
    /\ \E i \in 1..Len(mapped_df) :
        /\ grouped_df[i].sex # <<>>
        /\ grouped_df[i].sex \notin DOMAIN translation_dict[sex_field]
        /\ mapped_df[i].sex = -1
        /\ grouped_df[i].treatment \notin DOMAIN translation_dict[randomized_field]
        /\ mapped_df[i][randomized_field] = -1

---------------------------------------------------------------------------

Matched(record) ==
    IF HasAllKeys(record, less_criteria)
    THEN KeyOf(record, less_criteria) \in DOMAIN probability_dict
    ELSE FALSE

(* C10: randomization_step changes nothing but the randomized field of the *)
(* record it is at, and only when that record's stratum key is in the      *)
(* index: the index, the other records, the other fields and the order of  *)
(* the list stay as they are, and the value written is a key of the        *)
(* distribution of the record's own stratum.                               *)
C10_RandomizationFrame ==
    [][pc = "randomization_step" =>
        /\ probability_dict' = probability_dict
        /\ Len(eligibility_report') = Len(eligibility_report)
        /\ \A i \in 1..Len(eligibility_report) :
            LET old == eligibility_report[i]
                new == eligibility_report'[i]
            IN  /\ DOMAIN old \subseteq DOMAIN new
                /\ DOMAIN new \subseteq DOMAIN old \cup {randomized_field}
                /\ \A f \in DOMAIN old \ {randomized_field} : new[f] = old[f]
                /\ (i # report_key \/ ~Matched(old)) => new = old
                /\ (i = report_key /\ Matched(old) /\ pc' # "exit") =>
                       new[randomized_field]
                           \in DOMAIN probability_dict[KeyOf(old, less_criteria)]
    ]_vars

C10_Witness ==
    /\ pc = "log_records"
    /\ \E i, j \in 1..Len(eligibility_report) :
        /\ SubjectHasKey(i)
        /\ SubjectKey(i) \in DOMAIN probability_dict
        /\ eligibility_report[i][randomized_field]
               # ConvertRecord(redcap_records[i])[randomized_field]
        /\ j > i
        /\ ~(SubjectHasKey(j) /\ SubjectKey(j) \in DOMAIN probability_dict)
        /\ eligibility_report[j] = ConvertRecord(redcap_records[j])

---------------------------------------------------------------------------
(* The conversion of the data dictionary alone: main up to convert_codebook *)
(* on every well-formed choices text within the bounds.                    *)

CodeTexts == {<<"1">>, <<"2">>, <<"-", "1">>}
LabelTexts == {<<"F">>, <<"M">>, <<"N", "o">>, <<"N", "o", ",", " ", "F">>}

\* The lists of 1 to MaxPairs choices with distinct codes and distinct labels.
ChoiceLists ==
    UNION {{list \in [1..n -> [code : CodeTexts, label : LabelTexts]] :
                \A i, j \in 1..n :
                    i # j => list[i].code # list[j].code /\ list[i].label # list[j].label}
           : n \in 1..MaxPairs}

\* 'code, label | code, label | ...'
RECURSIVE ChoicesText(_)
ChoicesText(list) ==
    IF Len(list) = 1 THEN Choice(list[1].code, list[1].label)
    ELSE Pipe(Choice(list[1].code, list[1].label), ChoicesText(Tail(list)))

ChoiceCodebooks ==
    {<<IdDescriptor, Field(sex_field, type, ChoicesText(list))>> :
        type \in approved_field_types, list \in ChoiceLists}
    \cup {<<IdDescriptor, Field(sex_field, type, <<>>)>> : type \in {"yesno", "truefalse"}}

\* main after pull_redcap_report returned one record.
InitCodebook ==
    /\ redcap_records = <<[record_id |-> <<"1">>, sex |-> <<"1">>, rand_group |-> <<>>]>>
    /\ eligibility_report = redcap_records
    /\ full_codebook = <<>>
    /\ allocation_df = <<>>
    /\ pc = "codebook"
    /\ exit_at = ""
    /\ full_criteria = <<>>
    /\ less_criteria = <<>>
    /\ translation_dict = EmptyDict
    /\ grouped_df = <<>>
    /\ mapped_df = <<>>
    /\ probability_dict = EmptyDict
    /\ report_key = 0
    /\ pushed = <<>>

PullChoices == PullCodebookFrom(ChoiceCodebooks)

SpecCodebook == InitCodebook /\ [][PullChoices]_vars

---------------------------------------------------------------------------

FirstComma(pair) ==
    CHOOSE i \in 1..Len(pair) : pair[i] = "," /\ \A j \in 1..(i - 1) : pair[j] # ","

CodeOfPair(pair) == strip(SubSeq(pair, 1, FirstComma(pair) - 1))
LabelOfPair(pair) == strip(SubSeq(pair, FirstComma(pair) + 1, Len(pair)))

(* C8: for a field of interest of a supported type with a well-formed      *)
(* choices text, convert_codebook maps the label of every pair (all that   *)
(* follows the first comma, trimmed) to the code of the pair (what comes   *)
(* before the first comma), and the code leads back to that label alone.   *)
C8_LabelsMapToCodesAndBack ==
    pc = "allocation_table" =>
        \A k \in 1..Len(full_codebook) :
            LET obj == full_codebook[k]
                text == EffectiveChoices(obj)
                pairs == split(text, "|")
            IN  (/\ FieldTypeValidated(obj)
                 /\ obj.field_name \in SetOf(full_criteria) \cup {treatment_field}
                 /\ text # <<>>
                 /\ ~Malformed(text)) =>
                    /\ obj.field_name \in DOMAIN translation_dict
                    /\ \A i \in 1..Len(pairs) :
                        LET dict == translation_dict[obj.field_name]
                        IN  /\ LabelOfPair(pairs[i]) \in DOMAIN dict
                            /\ dict[LabelOfPair(pairs[i])] = CodeOfPair(pairs[i])
                            /\ \A label \in DOMAIN dict :
                                   dict[label] = CodeOfPair(pairs[i]) =>
                                       label = LabelOfPair(pairs[i])

=============================================================================
